---------------------------- MODULE Spec2Model ----------------------------
(***************************************************************************)
(* Model of the enum-group-macros procedural macros (impl/src/lib.rs):     *)
(*   define_enum_group!  parses a grouped-enum declaration and emits the   *)
(*                       group enums, the flat wire enum, the dispatch     *)
(*                       enum, the inherent into_group and the EnumGroup   *)
(*                       implementation;                                   *)
(*   match_enum_group!   parses a dispatch expression and emits a match    *)
(*                       over the dispatch enum.                           *)
(* The parsers work on proc_macro2 token trees, which are modelled as      *)
(* sequences of records [k, v, s]: k is the kind of the token, v its text  *)
(* and s the token stream inside a delimited group.                        *)
(***************************************************************************)
EXTENDS Integers, Sequences, FiniteSets, TLC

(***************************************************************************)
(* Bounds of the model.                                                    *)
(***************************************************************************)
MaxGroups == 2
MaxArms == 2
MaxCommas == 2
MaxPayload == 2

(***************************************************************************)
(* Token trees.                                                            *)
(***************************************************************************)
Ident(name) == [k |-> "ident", v |-> name, s |-> <<>>]
Lit(text) == [k |-> "lit", v |-> text, s |-> <<>>]
Punct(text) == [k |-> "punct", v |-> text, s |-> <<>>]
Paren(stream) == [k |-> "paren", v |-> "", s |-> stream]
Brace(stream) == [k |-> "brace", v |-> "", s |-> stream]
Bracket(stream) == [k |-> "bracket", v |-> "", s |-> stream]

Comma == Punct(",")
FatArrow == Punct("=>")
Pound == Punct("#")

\* Words the lexer delivers as identifiers but syn's Ident parser rejects.
Keywords == {"enum", "pub", "crate", "return", "_"}

Peek(ts, tok) == Len(ts) >= 1 /\ ts[1] = tok
PeekKind(ts, kind) == Len(ts) >= 1 /\ ts[1].k = kind
IsIdent(tok) == tok.k = "ident" /\ tok.v \notin Keywords

\* syn::Result of a parser: the value and the rest of the stream, or the error
Ok(val, rest) == [ok |-> TRUE, val |-> val, rest |-> rest, err |-> ""]
Err(msg) == [ok |-> FALSE, val |-> <<>>, rest |-> <<>>, err |-> msg]

\* The element of a singleton.  The({e(x) : x \in {v}}) is e with x bound to
\* the value of v: the `let x = v?;` of a parser, v being evaluated once.
The(S) == CHOOSE x \in S : TRUE

(***************************************************************************)
(* syn parsers used by the macros, restricted to the token alphabet above. *)
(***************************************************************************)
\* input.parse::<Ident>()
ParseIdent(ts) ==
  IF Len(ts) >= 1 /\ IsIdent(ts[1]) THEN Ok(ts[1].v, Tail(ts))
  ELSE Err("expected identifier")

\* The Meta inside #[...]: a path, optionally followed by a delimited list.
ParseMeta(ts) ==
  IF Len(ts) >= 1 /\ IsIdent(ts[1])
     /\ (Len(ts) = 1 \/ (Len(ts) = 2 /\ ts[2].k = "paren"))
  THEN Ok(ts, <<>>)
  ELSE Err("expected attribute arguments")

\* input.call(Attribute::parse_outer)
RECURSIVE ParseOuterAttrs(_, _)
ParseOuterAttrs(ts, acc) ==
  IF ~Peek(ts, Pound) THEN Ok(acc, ts)
  ELSE IF ~(Len(ts) >= 2 /\ ts[2].k = "bracket") THEN Err("expected [")
  ELSE The({IF ~m.ok THEN m
            ELSE ParseOuterAttrs(SubSeq(ts, 3, Len(ts)), Append(acc, m.val)) :
            m \in {ParseMeta(ts[2].s)}})

\* input.parse::<Visibility>()
ParseVisibility(ts) ==
  IF ~Peek(ts, Ident("pub")) THEN Ok("", ts)
  ELSE IF Len(ts) >= 2 /\ ts[2] = Paren(<<Ident("crate")>>)
       THEN Ok("pub(crate)", SubSeq(ts, 3, Len(ts)))
       ELSE Ok("pub", Tail(ts))

\* content.parse::<Type>(): a payload type is a path of one segment.
ParseType(ts) ==
  IF Len(ts) >= 1 /\ IsIdent(ts[1]) THEN Ok(ts[1].v, Tail(ts))
  ELSE Err("expected type")

(***************************************************************************)
(* impl Parse for ParsedVariant                                            *)
(***************************************************************************)
ParsedVariant(attrs, name, ty) == [attrs |-> attrs, name |-> name, ty |-> ty]

\* let ty: Type = content.parse()?; and the end of the parenthesized content
ParseVariantType(attrs, name, ts) ==
  IF ~PeekKind(ts, "paren") THEN Err("expected parentheses") ELSE
  The({IF ~t.ok THEN t
       ELSE IF t.rest # <<>> THEN Err("unexpected token")
       ELSE Ok(ParsedVariant(attrs, name, t.val), Tail(ts)) :
       t \in {ParseType(ts[1].s)}})

ParseVariant(ts) ==
  The({IF ~a.ok THEN a
       ELSE The({IF ~n.ok THEN n ELSE ParseVariantType(a.val, n.val, n.rest) :
                 n \in {ParseIdent(a.rest)}}) :
       a \in {ParseOuterAttrs(ts, <<>>)}})

(***************************************************************************)
(* impl Parse for ParsedGroup                                              *)
(***************************************************************************)
ParsedGroup(name, variants) == [name |-> name, variants |-> variants]

\* Mutant: every comma that follows a variant is consumed.
RECURSIVE SkipCommas(_)
SkipCommas(ts) == IF Peek(ts, Comma) THEN SkipCommas(Tail(ts)) ELSE ts

RECURSIVE ParseVariantsAnyCommas(_, _)
ParseVariantsAnyCommas(content, variants) ==
  IF content = <<>> THEN Ok(variants, <<>>) ELSE
  The({IF ~v.ok THEN v
       ELSE ParseVariantsAnyCommas(SkipCommas(v.rest), Append(variants, v.val)) :
       v \in {ParseVariant(content)}})

\* while !content.is_empty() { push(parse variant); if peek(,) { parse , } }
RECURSIVE ParseVariants(_, _)
ParseVariants(content, variants) ==
  IF content = <<>> THEN Ok(variants, <<>>) ELSE
  The({IF ~v.ok THEN v
       ELSE ParseVariants(IF Peek(v.rest, Comma) THEN Tail(v.rest) ELSE v.rest,
                          Append(variants, v.val)) :
       v \in {ParseVariant(content)}})

\* braced!(content in input) and the loop over the content
ParseGroupBody(name, ts) ==
  IF ~PeekKind(ts, "brace") THEN Err("expected curly braces") ELSE
  The({IF ~vs.ok THEN vs ELSE Ok(ParsedGroup(name, vs.val), Tail(ts)) :
       vs \in {ParseVariants(ts[1].s, <<>>)}})

ParseGroup(ts) ==
  The({IF ~n.ok THEN n ELSE ParseGroupBody(n.val, n.rest) :
       n \in {ParseIdent(ts)}})

(***************************************************************************)
(* impl Parse for EnumGroupInput                                           *)
(***************************************************************************)
EnumGroupInput(attrs, vis, name, groups) ==
  [attrs |-> attrs, vis |-> vis, name |-> name, groups |-> groups]

\* Mutant: a declaration must have a group.
RECURSIVE ParseGroupsAtLeastOne(_, _)
ParseGroupsAtLeastOne(content, groups) ==
  IF content = <<>>
  THEN IF groups = <<>> THEN Err("expected identifier") ELSE Ok(groups, <<>>)
  ELSE The({IF ~g.ok THEN g
            ELSE The({IF rest = <<>> THEN Ok(Append(groups, g.val), <<>>)
                      ELSE ParseGroupsAtLeastOne(rest, Append(groups, g.val)) :
                      rest \in {IF Peek(g.rest, Comma) THEN Tail(g.rest) ELSE g.rest}}) :
            g \in {ParseGroup(content)}})

\* Mutant: a group that does not parse ends the list, and the groups parsed
\* before it are kept.
RECURSIVE ParseGroupsRecovering(_, _)
ParseGroupsRecovering(content, groups) ==
  IF content = <<>> THEN Ok(groups, <<>>) ELSE
  The({IF ~g.ok THEN Ok(groups, <<>>)
       ELSE ParseGroupsRecovering(IF Peek(g.rest, Comma) THEN Tail(g.rest) ELSE g.rest,
                                  Append(groups, g.val)) :
       g \in {ParseGroup(content)}})

\* while !content.is_empty() { push(parse group); if peek(,) { parse , } }
RECURSIVE ParseGroups(_, _)
ParseGroups(content, groups) ==
  IF content = <<>> THEN Ok(groups, <<>>) ELSE
  The({IF ~g.ok THEN g
       ELSE ParseGroups(IF Peek(g.rest, Comma) THEN Tail(g.rest) ELSE g.rest,
                        Append(groups, g.val)) :
       g \in {ParseGroup(content)}})

\* braced!(content in input) and the loop over the content
ParseEnumBody(attrs, vis, name, ts) ==
  IF ~PeekKind(ts, "brace") THEN Err("expected curly braces") ELSE
  The({IF ~gs.ok THEN gs ELSE Ok(EnumGroupInput(attrs, vis, name, gs.val), Tail(ts)) :
       gs \in {ParseGroups(ts[1].s, <<>>)}})

\* input.parse::<Token![enum]>()?; let name: Ident = input.parse()?;
ParseEnumName(attrs, vis, ts) ==
  IF ~Peek(ts, Ident("enum")) THEN Err("expected enum") ELSE
  The({IF ~n.ok THEN n ELSE ParseEnumBody(attrs, vis, n.val, n.rest) :
       n \in {ParseIdent(Tail(ts))}})

ParseEnumGroupInput(ts) ==
  The({IF ~a.ok THEN a
       ELSE The({ParseEnumName(a.val, vis.val, vis.rest) :
                 vis \in {ParseVisibility(a.rest)}}) :
       a \in {ParseOuterAttrs(ts, <<>>)}})

(***************************************************************************)
(* fn generate_enum_group(input: EnumGroupInput) -> TokenStream2           *)
(* The emitted items are kept structured: an enum is its attributes, its   *)
(* visibility, its name and its members; an arm is its pattern and its     *)
(* right-hand side.                                                        *)
(***************************************************************************)
RECURSIVE Flatten(_)
Flatten(seqs) == IF seqs = <<>> THEN <<>> ELSE Head(seqs) \o Flatten(Tail(seqs))

\* pub trait EnumGroup, as the generated code names it
EnumGroupTrait == "::enum_group_macros::EnumGroup"

\* Mutant: the fixed word is put before the wire name.
GroupEnumNamePrefixed(wire_name) == "Group" \o wire_name

\* format_ident!("{}Group", wire_name)
GroupEnumName(wire_name) == wire_name \o "Group"

\* Mutant: a member is emitted without the attributes of its variant.
EmitVariantNoAttrs(v) == [attrs |-> <<>>, name |-> v.name, ty |-> v.ty]

\* quote! { #(#v_attrs)* #v_name(#v_ty) }
EmitVariant(v) == [attrs |-> v.attrs, name |-> v.name, ty |-> v.ty]

\* Mutant: the payload is rewrapped through the dispatch enum's path.
IntoGroupArmWrongPath(group_enum_name, group_name, v) ==
  [pat  |-> [enum |-> "Self", variant |-> v.name, bind |-> "v"],
   expr |-> [enum |-> group_enum_name, variant |-> group_name,
             arg |-> [enum |-> group_enum_name, variant |-> v.name, arg |-> "v"]]]

\* quote! { Self::#v_name(v) => #group_enum_name::#group_name(#group_name::#v_name(v)) }
IntoGroupArm(group_enum_name, group_name, v) ==
  [pat  |-> [enum |-> "Self", variant |-> v.name, bind |-> "v"],
   expr |-> [enum |-> group_enum_name, variant |-> group_name,
             arg |-> [enum |-> group_name, variant |-> v.name, arg |-> "v"]]]

\* quote! { #group_name(#group_name) }
GroupEnumVariant(group) == [attrs |-> <<>>, name |-> group.name, ty |-> group.name]

\* Mutant: the members of a group enum are emitted last to first.
GroupEnumReversed(attrs, vis, group) ==
  [attrs |-> attrs, vis |-> vis, name |-> group.name,
   variants |-> [j \in 1..Len(group.variants) |->
                  EmitVariant(group.variants[Len(group.variants) + 1 - j])]]

\* quote! { #(#attrs)* #vis enum #group_name { #(#variants),* } }
GroupEnum(attrs, vis, group) ==
  [attrs |-> attrs, vis |-> vis, name |-> group.name,
   variants |-> [j \in 1..Len(group.variants) |-> EmitVariant(group.variants[j])]]

\* Mutant: the variants are collected group by group from the last group back.
AllVariantsBackwards(groups) ==
  Flatten([i \in 1..Len(groups) |->
            [j \in 1..Len(groups[Len(groups) + 1 - i].variants) |->
              EmitVariant(groups[Len(groups) + 1 - i].variants[j])]])

\* Mutant: a variant whose name was already collected is left out.
RECURSIVE DropRepeated(_, _)
DropRepeated(members, seen) ==
  IF members = <<>> THEN <<>>
  ELSE IF Head(members).name \in seen THEN DropRepeated(Tail(members), seen)
  ELSE <<Head(members)>> \o DropRepeated(Tail(members), seen \cup {Head(members).name})

AllVariantsDeduplicated(groups) ==
  DropRepeated(Flatten([i \in 1..Len(groups) |->
                         [j \in 1..Len(groups[i].variants) |->
                           EmitVariant(groups[i].variants[j])]]), {})

\* for v in &group.variants { all_variants.push(..) }, over the groups in order
AllVariants(groups) ==
  Flatten([i \in 1..Len(groups) |->
            [j \in 1..Len(groups[i].variants) |-> EmitVariant(groups[i].variants[j])]])

\* Mutant: only the first variant of each group gets an arm.
IntoGroupArmsFirstOnly(group_enum_name, groups) ==
  Flatten([i \in 1..Len(groups) |->
            [j \in 1..(IF groups[i].variants = <<>> THEN 0 ELSE 1) |->
              IntoGroupArm(group_enum_name, groups[i].name, groups[i].variants[j])]])

\* for v in &group.variants { into_group_arms.push(..) }, over the groups in order
IntoGroupArms(group_enum_name, groups) ==
  Flatten([i \in 1..Len(groups) |->
            [j \in 1..Len(groups[i].variants) |->
              IntoGroupArm(group_enum_name, groups[i].name, groups[i].variants[j])]])

\* Mutant: the attributes are put on the wire enum last to first.
WireEnumAttrsReversed(attrs, vis, wire_name, groups) ==
  [attrs |-> [a \in 1..Len(attrs) |-> attrs[Len(attrs) + 1 - a]],
   vis |-> vis, name |-> wire_name, variants |-> AllVariants(groups)]

\* quote! { #(#attrs)* #vis enum #wire_name { #(#all_variants),* } }
WireEnum(attrs, vis, wire_name, groups) ==
  [attrs |-> attrs, vis |-> vis, name |-> wire_name, variants |-> AllVariants(groups)]

\* Mutant: the dispatch enum also derives PartialEq.
DeriveDebugClonePartialEq ==
  <<Ident("derive"),
    Paren(<<Ident("Debug"), Comma, Ident("Clone"), Comma, Ident("PartialEq")>>)>>

\* #[derive(Debug, Clone)]
DeriveDebugClone == <<Ident("derive"), Paren(<<Ident("Debug"), Comma, Ident("Clone")>>)>>

\* Mutant: a group without variants gets no member in the dispatch enum.
GroupDispatchEnumSkipEmpty(vis, wire_name, groups) ==
  [attrs |-> <<DeriveDebugClone>>, vis |-> vis, name |-> GroupEnumName(wire_name),
   variants |-> [i \in 1..Len(SelectSeq(groups, LAMBDA g : g.variants # <<>>)) |->
                  GroupEnumVariant(SelectSeq(groups, LAMBDA g : g.variants # <<>>)[i])]]

\* quote! { #[derive(Debug, Clone)] #vis enum #group_enum_name { #(#group_enum_variants),* } }
GroupDispatchEnum(vis, wire_name, groups) ==
  [attrs |-> <<DeriveDebugClone>>, vis |-> vis, name |-> GroupEnumName(wire_name),
   variants |-> [i \in 1..Len(groups) |-> GroupEnumVariant(groups[i])]]

\* Mutant: into_group is emitted without the visibility of the declaration.
InherentImplPrivate(vis, wire_name, groups) ==
  [self_ty |-> wire_name, vis |-> "", method |-> "into_group",
   ret |-> GroupEnumName(wire_name),
   arms |-> IntoGroupArms(GroupEnumName(wire_name), groups)]

\* quote! { impl #wire_name { #vis fn into_group(self) -> #group_enum_name { match self { .. } } } }
InherentImpl(vis, wire_name, groups) ==
  [self_ty |-> wire_name, vis |-> vis, method |-> "into_group",
   ret |-> GroupEnumName(wire_name),
   arms |-> IntoGroupArms(GroupEnumName(wire_name), groups)]

\* Mutant: the trait method calls itself through the trait.
TraitImplThroughTrait(wire_name) ==
  [trait |-> EnumGroupTrait, self_ty |-> wire_name,
   Group |-> GroupEnumName(wire_name), method |-> "into_group",
   callee |-> [ty |-> "<" \o wire_name \o " as " \o EnumGroupTrait \o ">",
               method |-> "into_group"]]

\* quote! { impl ::enum_group_macros::EnumGroup for #wire_name { type Group = ..; fn into_group .. } }
TraitImpl(wire_name) ==
  [trait |-> EnumGroupTrait, self_ty |-> wire_name,
   Group |-> GroupEnumName(wire_name), method |-> "into_group",
   callee |-> [ty |-> wire_name, method |-> "into_group"]]

generate_enum_group(input) ==
  [kind |-> "items",
   group_enums |-> [i \in 1..Len(input.groups) |->
                      GroupEnum(input.attrs, input.vis, input.groups[i])],
   wire_enum |-> WireEnum(input.attrs, input.vis, input.name, input.groups),
   group_dispatch_enum |-> GroupDispatchEnum(input.vis, input.name, input.groups),
   inherent_impl |-> InherentImpl(input.vis, input.name, input.groups),
   trait_impl |-> TraitImpl(input.name)]

\* err.to_compile_error(): the whole output of a failed invocation
CompileError(msg) == [kind |-> "compile_error", msg |-> msg]

\* parse_macro_input!(input as EnumGroupInput): the parse must use up the input
ParseMacroInput(ts) ==
  The({IF r.ok /\ r.rest # <<>> THEN Err("unexpected token") ELSE r :
       r \in {ParseEnumGroupInput(ts)}})

(***************************************************************************)
(* syn::Expr, restricted to the token alphabet: a literal, a path, a       *)
(* block, a parenthesized expression, a call (an atom followed by a        *)
(* parenthesized argument list) and `return` with its optional operand.    *)
(* The value of a successful parse is the token stream of the expression,  *)
(* which is what quote! re-emits.                                          *)
(***************************************************************************)
\* Can an expression begin at the head of ts
CanBeginExpr(ts) ==
  /\ Len(ts) >= 1
  /\ \/ ts[1].k \in {"lit", "paren", "brace"}
     \/ IsIdent(ts[1])
     \/ ts[1] = Ident("return")

\* trailer_helper: the argument lists that directly follow an atom
RECURSIVE CallTrailer(_)
CallTrailer(ts) == IF PeekKind(ts, "paren") THEN 1 + CallTrailer(Tail(ts)) ELSE 0

RECURSIVE ParseExpr(_)
ParseExpr(ts) ==
  IF ~CanBeginExpr(ts) THEN Err("expected expression")
  ELSE IF ts[1] = Ident("return")
  THEN \* expr_return: the operand is parsed whenever an expression can begin
       IF CanBeginExpr(Tail(ts))
       THEN The({IF ~e.ok THEN e ELSE Ok(<<ts[1]>> \o e.val, e.rest) :
                 e \in {ParseExpr(Tail(ts))}})
       ELSE Ok(<<ts[1]>>, Tail(ts))
  ELSE IF ts[1].k \in {"paren", "brace"} /\ ts[1].s # <<>>
          /\ \E e \in {ParseExpr(ts[1].s)} : ~(e.ok /\ e.rest = <<>>)
  THEN Err("expected expression")
  ELSE The({Ok(SubSeq(ts, 1, n), SubSeq(ts, n + 1, Len(ts))) :
            n \in {1 + CallTrailer(Tail(ts))}})

(***************************************************************************)
(* struct MatchArm and the parser closure of parse_match_enum_group        *)
(***************************************************************************)
MatchArm(group_name, binding, body) ==
  [group_name |-> group_name, binding |-> binding, body |-> body]

\* GroupName(binding) => body
\* (binding) => body
ParseArmBody(group_name, ts) ==
  IF ~PeekKind(ts, "paren") THEN Err("expected parentheses") ELSE
  IF ~Peek(Tail(ts), FatArrow) THEN Err("expected =>") ELSE
  The({IF ~b.ok THEN b ELSE Ok(MatchArm(group_name, ts[1].s, b.val), b.rest) :
       b \in {ParseExpr(Tail(Tail(ts)))}})

ParseArm(ts) ==
  The({IF ~g.ok THEN g ELSE ParseArmBody(g.val, g.rest) :
       g \in {ParseIdent(ts)}})

\* Mutant: an arm that is not the last one must be followed by a comma.
RECURSIVE ParseArmsCommaRequired(_, _)
ParseArmsCommaRequired(content, arms) ==
  IF content = <<>> THEN Ok(arms, <<>>) ELSE
  The({IF ~a.ok THEN a
       ELSE IF a.rest # <<>> /\ ~Peek(a.rest, Comma) THEN Err("expected ,")
       ELSE ParseArmsCommaRequired(IF a.rest = <<>> THEN a.rest ELSE Tail(a.rest),
                                   Append(arms, a.val)) :
       a \in {ParseArm(content)}})

\* Mutant: an arm that names the group of an earlier arm is an error.
RECURSIVE ParseArmsNoDuplicates(_, _)
ParseArmsNoDuplicates(content, arms) ==
  IF content = <<>> THEN Ok(arms, <<>>) ELSE
  The({IF ~a.ok THEN a
       ELSE IF \E i \in 1..Len(arms) : arms[i].group_name = a.val.group_name
       THEN Err("duplicate arm")
       ELSE ParseArmsNoDuplicates(IF Peek(a.rest, Comma) THEN Tail(a.rest) ELSE a.rest,
                                  Append(arms, a.val)) :
       a \in {ParseArm(content)}})

\* while !content.is_empty() { push(parse arm); if peek(,) { parse , } }
RECURSIVE ParseArms(_, _)
ParseArms(content, arms) ==
  IF content = <<>> THEN Ok(arms, <<>>) ELSE
  The({IF ~a.ok THEN a
       ELSE ParseArms(IF Peek(a.rest, Comma) THEN Tail(a.rest) ELSE a.rest,
                      Append(arms, a.val)) :
       a \in {ParseArm(content)}})

\* `,` { arms } and the end of the input (parser.parse2 uses up its input)
ParseMatchArms(val, wire, ts) ==
  IF ~Peek(ts, Comma) THEN Err("expected ,") ELSE
  IF ~PeekKind(Tail(ts), "brace") THEN Err("expected curly braces") ELSE
  The({IF ~arms.ok THEN arms
       ELSE IF Tail(Tail(ts)) # <<>> THEN Err("unexpected token")
       ELSE Ok([val |-> val, wire |-> wire, arms |-> arms.val], <<>>) :
       arms \in {ParseArms(ts[2].s, <<>>)}})

\* `,` and the wire enum type (just the identifier)
ParseMatchWire(val, ts) ==
  IF ~Peek(ts, Comma) THEN Err("expected ,") ELSE
  The({IF ~wire.ok THEN wire ELSE ParseMatchArms(val, wire.val, wire.rest) :
       wire \in {ParseIdent(Tail(ts))}})

\* the parser closure: value, `,`, wire name, `,`, { arms }
ParseMatchInput(ts) ==
  The({IF ~val.ok THEN val ELSE ParseMatchWire(val.val, val.rest) :
       val \in {ParseExpr(ts)}})

\* Mutant: the binding of an arm is replaced by a wildcard.
EmitMatchArmWildcard(arm) ==
  [pat  |-> [enum |-> "__EnumGroup__", variant |-> arm.group_name, bind |-> <<Ident("_")>>],
   body |-> arm.body]

\* quote! { __EnumGroup__::#group_name(#binding) => #body }
EmitMatchArm(arm) ==
  [pat  |-> [enum |-> "__EnumGroup__", variant |-> arm.group_name, bind |-> arm.binding],
   body |-> arm.body]

\* Mutant: every pattern is followed by the body of the next arm.
GenerateMatchBodiesShifted(val, wire, arms) ==
  [kind |-> "expr",
   alias |-> [name |-> "__EnumGroup__",
              ty |-> [self_ty |-> wire, trait |-> EnumGroupTrait, assoc |-> "Group"]],
   scrutinee |-> [callee |-> [self_ty |-> wire, trait |-> EnumGroupTrait,
                              method |-> "into_group"],
                  arg |-> val],
   arms |-> [i \in 1..Len(arms) |->
              [pat |-> EmitMatchArm(arms[i]).pat, body |-> arms[(i % Len(arms)) + 1].body]]]

\* the expansion: { type __EnumGroup__ = <W as EnumGroup>::Group;
\*                  match <W as EnumGroup>::into_group(val) { arms } }
GenerateMatch(val, wire, arms) ==
  [kind |-> "expr",
   alias |-> [name |-> "__EnumGroup__",
              ty |-> [self_ty |-> wire, trait |-> EnumGroupTrait, assoc |-> "Group"]],
   scrutinee |-> [callee |-> [self_ty |-> wire, trait |-> EnumGroupTrait,
                              method |-> "into_group"],
                  arg |-> val],
   arms |-> [i \in 1..Len(arms) |-> EmitMatchArm(arms[i])]]

\* fn parse_match_enum_group / the Err branch of fn match_enum_group
parse_match_enum_group(ts) ==
  The({IF r.ok THEN GenerateMatch(r.val.val, r.val.wire, r.val.arms)
       ELSE CompileError(r.err) :
       r \in {ParseMatchInput(ts)}})

(***************************************************************************)
(* The generated code at run time.  A value of an enum is its type, its    *)
(* active member and its payload.                                          *)
(***************************************************************************)
Value(enum, variant, payload) == [enum |-> enum, variant |-> variant, payload |-> payload]

None == [kind |-> "none"]
Diverges == [kind |-> "diverges"]

RECURSIVE SeqToSet(_)
SeqToSet(seq) == IF seq = <<>> THEN {} ELSE {Head(seq)} \cup SeqToSet(Tail(seq))

Names(members) == [i \in 1..Len(members) |-> members[i].name]
Distinct(seq) == Cardinality(SeqToSet(seq)) = Len(seq)

\* The traits named by the #[derive(..)] attributes among attrs.
Derives(attrs) ==
  UNION {{a[2].s[k].v : k \in {n \in 1..Len(a[2].s) : a[2].s[n].k = "ident"}} :
         a \in {x \in SeqToSet(attrs) : Len(x) = 2 /\ x[1] = Ident("derive")}}

\* Does an enum carry a #[serde(..)] attribute, on itself or on a member
UsesSerde(enum) ==
  \/ \E a \in SeqToSet(enum.attrs) : a[1] = Ident("serde")
  \/ \E i \in 1..Len(enum.variants) :
       \E a \in SeqToSet(enum.variants[i].attrs) : a[1] = Ident("serde")

\* The host compiler rejects two types of one name and two members of one
\* name in an enum, a derive on the dispatch enum whose members wrap a group
\* enum without Debug or Clone, and a serde attribute on an enum that does
\* not derive a serde trait; only accepted items ever run.
HostAccepts(items) ==
  /\ items.kind = "items"
  /\ \A i \in 1..Len(items.group_enums) :
       /\ Derives(items.group_dispatch_enum.attrs) \subseteq Derives(items.group_enums[i].attrs)
       /\ UsesSerde(items.group_enums[i]) => "Serialize" \in Derives(items.group_enums[i].attrs)
  /\ UsesSerde(items.wire_enum) => "Serialize" \in Derives(items.wire_enum.attrs)
  /\ Distinct(Names(items.group_enums)
              \o <<items.wire_enum.name, items.group_dispatch_enum.name>>)
  /\ \A i \in 1..Len(items.group_enums) : Distinct(Names(items.group_enums[i].variants))
  /\ Distinct(Names(items.wire_enum.variants))
  /\ Distinct(Names(items.group_dispatch_enum.variants))

\* match self { Self::V(v) => D::G(G::V(v)), .. }: the first arm whose
\* pattern names the active member is taken and v is bound to the payload.
MatchSelf(arms, self_value) ==
  LET hits == {i \in 1..Len(arms) : arms[i].pat.variant = self_value.variant} IN
  IF hits = {} THEN Diverges ELSE
  LET arm == arms[CHOOSE i \in hits : \A j \in hits : i <= j] IN
  Value(arm.expr.enum, arm.expr.variant,
        Value(arm.expr.arg.enum, arm.expr.arg.variant, self_value.payload))

\* impl #wire_name { fn into_group(self) -> #group_enum_name }
InherentIntoGroup(items, self_value) ==
  IF self_value.enum = items.inherent_impl.self_ty
  THEN MatchSelf(items.inherent_impl.arms, self_value)
  ELSE Diverges

\* impl EnumGroup for #wire_name { fn into_group(self) { #wire_name::into_group(self) } }:
\* the path names the inherent method of the type when there is one, and
\* the trait method itself (a call that never returns) otherwise.
TraitIntoGroup(items, self_value) ==
  IF self_value.enum # items.trait_impl.self_ty THEN Diverges
  ELSE IF items.trait_impl.callee.ty = items.inherent_impl.self_ty
          /\ items.trait_impl.callee.method = items.inherent_impl.method
  THEN InherentIntoGroup(items, self_value)
  ELSE Diverges

\* The values of the wire enum: one per member and payload.
Payloads == 1..MaxPayload
WireValues(items) ==
  {Value(items.wire_enum.name, items.wire_enum.variants[i].name, p) :
     i \in 1..Len(items.wire_enum.variants), p \in Payloads}

(***************************************************************************)
(* The expansion of match_enum_group! at run time.                         *)
(***************************************************************************)
IsBinding(ts) == Len(ts) = 1 /\ (IsIdent(ts[1]) \/ ts[1] = Ident("_"))

\* The type of an arm body: "!" for a body that returns from the function.
RECURSIVE BodyType(_, _, _)
BodyType(body, binding, group_ty) ==
  IF Len(body) = 0 THEN "()"
  ELSE IF body[1] = Ident("return") THEN "!"
  ELSE IF Len(body) # 1 THEN "?"
  ELSE IF body[1].k = "lit" THEN "i32"
  ELSE IF body[1].k = "brace" THEN BodyType(body[1].s, binding, group_ty)
  ELSE IF body[1].k = "ident" /\ body = binding THEN group_ty
  ELSE "?"

\* The value of an arm body with its binding bound to bound_value.
RECURSIVE EvalBody(_, _, _)
EvalBody(body, binding, bound_value) ==
  IF Len(body) = 0 THEN [kind |-> "unit"]
  ELSE IF body[1] = Ident("return")
  THEN [kind |-> "return", operand |-> Tail(body)]
  ELSE IF body[1].k = "lit" THEN [kind |-> "lit", val |-> body[1].v]
  ELSE IF body[1].k = "brace" THEN EvalBody(body[1].s, binding, bound_value)
  ELSE IF body = binding THEN [kind |-> "group", val |-> bound_value]
  ELSE Diverges

\* The host compiler on the expansion: the wire name has the EnumGroup
\* implementation, every arm names a member of the dispatch enum, the arms
\* are exhaustive and their bodies have one type.
MatchAccepts(items, expr) ==
  /\ expr.kind = "expr"
  /\ expr.scrutinee.callee.self_ty = items.trait_impl.self_ty
  /\ expr.scrutinee.callee.trait = items.trait_impl.trait
  /\ expr.scrutinee.arg \in {<<Ident("msg")>>, <<Ident("next"), Paren(<<>>)>>}
  /\ \A i \in 1..Len(expr.arms) :
       /\ expr.arms[i].pat.variant \in SeqToSet(Names(items.group_dispatch_enum.variants))
       /\ IsBinding(expr.arms[i].pat.bind)
  /\ \A n \in SeqToSet(Names(items.group_dispatch_enum.variants)) :
       \E i \in 1..Len(expr.arms) : expr.arms[i].pat.variant = n
  /\ LET tys == {BodyType(expr.arms[i].body, expr.arms[i].pat.bind,
                          expr.arms[i].pat.variant) : i \in 1..Len(expr.arms)}
     IN "?" \notin tys /\ Cardinality(tys \ {"!"}) <= 1

\* match <W as EnumGroup>::into_group(val) { __EnumGroup__::G(binding) => body, .. }
EvalMatch(items, expr, self_value) ==
  LET d == TraitIntoGroup(items, self_value)
      hits == {i \in 1..Len(expr.arms) : expr.arms[i].pat.variant = d.variant} IN
  IF d = Diverges \/ hits = {} THEN Diverges ELSE
  LET arm == expr.arms[CHOOSE i \in hits : \A j \in hits : i <= j] IN
  EvalBody(arm.body, arm.pat.bind, d.payload)

(***************************************************************************)
(* The invocations the model runs: declarations and dispatch expressions   *)
(* written the way the tests and the documentation write them, rendered    *)
(* to token trees with every choice of separators.                         *)
(***************************************************************************)
WireName == "WireMsg"
GroupNames == {"Protocol", "Business"}
VariantLists == {<<>>, <<"B", "A">>, <<"C">>}
TypeOf(v_name) == "Msg" \o v_name

DeriveAttr ==
  <<Ident("derive"), Paren(<<Ident("Debug"), Comma, Ident("Clone"), Comma, Ident("PartialEq")>>)>>
DeriveSerdeAttr ==
  <<Ident("derive"), Paren(<<Ident("Debug"), Comma, Ident("Clone"), Comma, Ident("Serialize")>>)>>
SerdeAttr == <<Ident("serde"), Paren(<<Ident("tag")>>)>>
RenameAttr == <<Ident("serde"), Paren(<<Ident("rename")>>)>>
AliasAttr == <<Ident("serde"), Paren(<<Ident("alias")>>)>>

\* A style: the declaration's attributes and visibility, and whether the
\* variants named B carry an attribute of their own.
Styles ==
  [attrs : {<<>>, <<DeriveAttr>>, <<DeriveSerdeAttr, SerdeAttr>>},
   vis : {"", "pub", "pub(crate)"},
   vattr : BOOLEAN]
DeriveStyle == [attrs |-> <<DeriveAttr>>, vis |-> "", vattr |-> FALSE]

\* A shape: up to MaxGroups groups, each a name and a list of variant names.
Shapes ==
  UNION {[1..n -> [name : GroupNames, variants : VariantLists]] : n \in 0..MaxGroups}

SourceDecl(style, shape) ==
  EnumGroupInput(style.attrs, style.vis, WireName,
    [i \in 1..Len(shape) |->
      ParsedGroup(shape[i].name,
        [j \in 1..Len(shape[i].variants) |->
          ParsedVariant(IF style.vattr /\ shape[i].variants[j] = "B"
                        THEN <<RenameAttr, AliasAttr>> ELSE <<>>,
                        shape[i].variants[j], TypeOf(shape[i].variants[j]))])])

Commas(n) == [i \in 1..n |-> Comma]

\* The items of a list, sep commas between two items, trail after the last.
RECURSIVE Join(_, _, _)
Join(items, sep, trail) ==
  IF items = <<>> THEN <<>>
  ELSE IF Len(items) = 1 THEN items[1] \o Commas(trail)
  ELSE items[1] \o Commas(sep) \o Join(Tail(items), sep, trail)

RenderAttrs(attrs) == Flatten([i \in 1..Len(attrs) |-> <<Pound, Bracket(attrs[i])>>])
RenderVis(vis) ==
  IF vis = "pub" THEN <<Ident("pub")>>
  ELSE IF vis = "pub(crate)" THEN <<Ident("pub"), Paren(<<Ident("crate")>>)>>
  ELSE <<>>
RenderVariant(v) == RenderAttrs(v.attrs) \o <<Ident(v.name), Paren(<<Ident(v.ty)>>)>>
RenderGroup(g, seps) ==
  <<Ident(g.name),
    Brace(Join([j \in 1..Len(g.variants) |-> RenderVariant(g.variants[j])],
               seps.vsep, seps.vtrail))>>
RenderDecl(d, seps) ==
  RenderAttrs(d.attrs) \o RenderVis(d.vis) \o
  <<Ident("enum"), Ident(d.name),
    Brace(Join([i \in 1..Len(d.groups) |-> RenderGroup(d.groups[i], seps)],
               seps.gsep, seps.gtrail))>>

\* Separators: all lists written with no comma or with one comma, and one
\* kind of position written with 0..MaxCommas commas.
SepKinds == {"gsep", "gtrail", "vsep", "vtrail"}
SepChoices ==
  {[k \in SepKinds |-> IF k = kind THEN n ELSE base] :
     base \in {0, 1}, kind \in SepKinds, n \in 0..MaxCommas}
DefaultSeps == [k \in SepKinds |-> 1]

\* The declaration of the documentation: Protocol { A, B }, Business { C }.
ExampleShape ==
  <<[name |-> "Protocol", variants |-> <<"A", "B">>],
    [name |-> "Business", variants |-> <<"C">>]>>
ExampleDecl == RenderDecl(SourceDecl(DeriveStyle, ExampleShape), DefaultSeps)

\* Arms as the tests write them.
ArmChoices ==
  {MatchArm("Protocol", <<Ident("p")>>, <<Lit("1")>>),
   MatchArm("Business", <<Ident("b")>>, <<Lit("2")>>),
   MatchArm("Protocol", <<Ident("p")>>, <<Ident("p")>>),
   MatchArm("Business", <<Ident("_")>>, <<Brace(<<Lit("2")>>)>>),
   MatchArm("Business", <<Ident("b")>>, <<Ident("return")>>),
   MatchArm("Protocol", <<Ident("_")>>, <<Ident("return"), Lit("1")>>),
   MatchArm("Other", <<Ident("o")>>, <<Lit("3")>>)}
ArmLists == UNION {[1..n -> ArmChoices] : n \in 0..MaxArms}

RenderArm(arm) == <<Ident(arm.group_name), Paren(arm.binding), FatArrow>> \o arm.body
RenderMatch(val, wire, arms, sep, trail) ==
  val \o <<Comma, Ident(wire), Comma,
           Brace(Join([i \in 1..Len(arms) |-> RenderArm(arms[i])], sep, trail))>>

\* Declarations with colliding names: a variant twice in a group, a variant
\* in two groups, a group twice, a group named like the wire enum and a group
\* named like the dispatch enum.
CollisionShapes ==
  {<<[name |-> "Protocol", variants |-> <<"C", "C">>]>>,
   <<[name |-> "Protocol", variants |-> <<"C">>],
     [name |-> "Business", variants |-> <<"C">>]>>,
   <<[name |-> "Protocol", variants |-> <<"B", "A">>],
     [name |-> "Protocol", variants |-> <<"C">>]>>,
   <<[name |-> WireName, variants |-> <<"C">>]>>,
   <<[name |-> GroupEnumName(WireName), variants |-> <<"C">>]>>}

\* The dispatch expression of the documentation over that declaration.
ExampleMatch ==
  RenderMatch(<<Ident("msg")>>, WireName,
              <<MatchArm("Protocol", <<Ident("p")>>, <<Lit("1")>>),
                MatchArm("Business", <<Ident("b")>>, <<Lit("2")>>)>>, 1, 1)

\* A sequence without its k-th element.
RemoveAt(seq, k) == SubSeq(seq, 1, k - 1) \o SubSeq(seq, k + 1, Len(seq))

\* Invocations that went wrong in one place: a token stream with one token
\* left out, at the top or inside a delimited group at any depth.
RECURSIVE Damaged(_)
Damaged(ts) ==
  {RemoveAt(ts, k) : k \in 1..Len(ts)}
    \cup UNION {{[ts EXCEPT ![k].s = d] : d \in Damaged(ts[k].s)} : k \in 1..Len(ts)}

Tokens(ts) == [kind |-> "tokens", ts |-> ts]

(***************************************************************************)
(* The state: the two invocations of the crate, what each macro parsed and *)
(* returned, and the values of a run of the compiled crate.                *)
(***************************************************************************)
VARIABLES decl_input, match_input, decl_ast, define_output, match_ast, match_output,
          msg, grouped, trait_grouped, match_result

vars == <<decl_input, match_input, decl_ast, define_output, match_ast, match_output,
          msg, grouped, trait_grouped, match_result>>

\* A crate holds one declaration, and either no dispatch expression or one
\* dispatch expression over the declaration of the documentation.
Init ==
  /\ \/ \E sh \in Shapes, seps \in SepChoices :
          /\ decl_input = Tokens(RenderDecl(SourceDecl(DeriveStyle, sh), seps))
          /\ match_input = None
     \/ \E sh \in Shapes, st \in Styles :
          /\ decl_input = Tokens(RenderDecl(SourceDecl(st, sh), DefaultSeps))
          /\ match_input = None
     \/ \E arms \in ArmLists, sep \in 0..MaxCommas, trail \in 0..MaxCommas :
          /\ decl_input = Tokens(ExampleDecl)
          /\ match_input = Tokens(RenderMatch(<<Ident("msg")>>, WireName, arms, sep, trail))
     \/ \E arms \in ArmLists :
          /\ decl_input = Tokens(ExampleDecl)
          /\ match_input = Tokens(RenderMatch(<<Ident("next"), Paren(<<>>)>>,
                                               WireName, arms, 1, 1))
     \/ \E sh \in CollisionShapes :
          /\ decl_input = Tokens(RenderDecl(SourceDecl(DeriveStyle, sh), DefaultSeps))
          /\ match_input = None
     \/ \E d \in Damaged(ExampleDecl) :
          /\ decl_input = Tokens(d)
          /\ match_input = None
     \/ \E m \in Damaged(ExampleMatch) :
          /\ decl_input = Tokens(ExampleDecl)
          /\ match_input = Tokens(m)
  /\ decl_ast = None /\ define_output = None
  /\ match_ast = None /\ match_output = None
  /\ msg = None /\ grouped = None /\ trait_grouped = None /\ match_result = None

Ast(val) == [kind |-> "ast", val |-> val]

\* #[proc_macro] pub fn define_enum_group(input: TokenStream) -> TokenStream
define_enum_group ==
  /\ define_output = None
  /\ \E r \in {ParseMacroInput(decl_input.ts)} :
       /\ decl_ast' = IF r.ok THEN Ast(r.val) ELSE None
       /\ define_output' = IF r.ok THEN generate_enum_group(r.val)
                                  ELSE CompileError(r.err)
  /\ UNCHANGED <<decl_input, match_input, match_ast, match_output,
                 msg, grouped, trait_grouped, match_result>>

\* Mutant: the expansion looks at the declaration when it was expanded first,
\* and refuses an arm for a group that is not declared.
match_enum_group_checked ==
  /\ match_input # None
  /\ match_output = None
  /\ \E r \in {ParseMatchInput(match_input.ts)} :
       /\ match_ast' = IF r.ok THEN Ast(r.val) ELSE None
       /\ match_output' =
            IF /\ r.ok
               /\ define_output.kind = "items"
               /\ \E i \in 1..Len(r.val.arms) :
                    \A g \in 1..Len(define_output.group_enums) :
                      define_output.group_enums[g].name # r.val.arms[i].group_name
            THEN CompileError("no such group")
            ELSE parse_match_enum_group(match_input.ts)
  /\ UNCHANGED <<decl_input, match_input, decl_ast, define_output,
                 msg, grouped, trait_grouped, match_result>>

\* #[proc_macro] pub fn match_enum_group(input: TokenStream) -> TokenStream
match_enum_group ==
  /\ match_input # None
  /\ match_output = None
  /\ \E r \in {ParseMatchInput(match_input.ts)} :
       match_ast' = IF r.ok THEN Ast(r.val) ELSE None
  /\ match_output' = parse_match_enum_group(match_input.ts)
  /\ UNCHANGED <<decl_input, match_input, decl_ast, define_output,
                 msg, grouped, trait_grouped, match_result>>

\* The crate runs once both macros have returned and the host compiler has
\* accepted what they returned.
CrateCompiles ==
  /\ HostAccepts(define_output)
  /\ match_input = None \/ MatchAccepts(define_output, match_output)

\* let msg = W::V(p); msg.into_group(): the generated inherent method
into_group ==
  /\ CrateCompiles
  /\ msg = None
  /\ \E v \in WireValues(define_output) :
       /\ msg' = v
       /\ grouped' = InherentIntoGroup(define_output, v)
  /\ UNCHANGED <<decl_input, match_input, decl_ast, define_output, match_ast,
                 match_output, trait_grouped, match_result>>

\* <W as EnumGroup>::into_group(msg): the generated trait implementation
EnumGroup_into_group ==
  /\ CrateCompiles
  /\ msg # None /\ trait_grouped = None
  /\ trait_grouped' = TraitIntoGroup(define_output, msg)
  /\ UNCHANGED <<decl_input, match_input, decl_ast, define_output, match_ast,
                 match_output, msg, grouped, match_result>>

\* match_enum_group!(msg, W, { arms }) evaluated on msg
eval_match ==
  /\ CrateCompiles
  /\ match_input # None
  /\ msg # None /\ match_result = None
  /\ match_result' = EvalMatch(define_output, match_output, msg)
  /\ UNCHANGED <<decl_input, match_input, decl_ast, define_output, match_ast,
                 match_output, msg, grouped, trait_grouped>>

Next ==
  \/ define_enum_group
  \/ match_enum_group
  \/ into_group
  \/ EnumGroup_into_group
  \/ eval_match

Spec == Init /\ [][Next]_vars

(***************************************************************************)
(* Properties.                                                             *)
(***************************************************************************)
Generated == define_output.kind = "items"

\* The number of variants declared in the first n groups.
RECURSIVE Offset(_, _)
Offset(groups, n) == IF n = 0 THEN 0 ELSE Offset(groups, n - 1) + Len(groups[n].variants)

\* The name written after the `enum` keyword of a declaration.
DeclaredName(ts) == ts[1 + CHOOSE k \in 1..Len(ts) : ts[k] = Ident("enum")].v

\* The content of the braces that close a declaration or a dispatch expression.
ListOf(ts) == ts[Len(ts)].s

\* C1: for every variant V declared in group G and every payload p,
\* into_group on the wire value V(p) returns <WireName>Group::G(G::V(p)):
\* the dispatch member is G, the group member is V, the payload is p.
C1_IntoGroupRewraps ==
  grouped # None =>
    \A i \in 1..Len(decl_ast.val.groups) :
      \A j \in 1..Len(decl_ast.val.groups[i].variants) :
        decl_ast.val.groups[i].variants[j].name = msg.variant =>
          grouped = Value(DeclaredName(decl_input.ts) \o "Group",
                          decl_ast.val.groups[i].name,
                          Value(decl_ast.val.groups[i].name,
                                decl_ast.val.groups[i].variants[j].name,
                                msg.payload))

\* A variant of the second group, with the payload 2, has been converted.
C1_Witness ==
  /\ grouped # None
  /\ Len(decl_ast.val.groups) = 2
  /\ Len(decl_ast.val.groups[1].variants) = 2
  /\ msg = Value("WireMsg", "C", 2)
  /\ grouped.variant = "Business"

\* C2: the arms of into_group are as many as the members of the wire enum,
\* the i-th arm matches the i-th member by name through Self, so that every
\* member of a wire enum the host accepts is matched by exactly one arm; no
\* arm is a wildcard.
C2_IntoGroupTotal ==
  Generated =>
    /\ Len(define_output.inherent_impl.arms) = Len(define_output.wire_enum.variants)
    /\ \A i \in 1..Len(define_output.inherent_impl.arms) :
         /\ define_output.inherent_impl.arms[i].pat.enum = "Self"
         /\ define_output.inherent_impl.arms[i].pat.variant
              = define_output.wire_enum.variants[i].name
         /\ define_output.inherent_impl.arms[i].pat.variant # "_"
    /\ HostAccepts(define_output) =>
         \A i \in 1..Len(define_output.wire_enum.variants) :
           Cardinality({a \in 1..Len(define_output.inherent_impl.arms) :
                          define_output.inherent_impl.arms[a].pat.variant
                            = define_output.wire_enum.variants[i].name}) = 1

\* A wire enum of three members with its three arms.
C2_Witness ==
  /\ Generated
  /\ Len(define_output.wire_enum.variants) = 3
  /\ Len(define_output.inherent_impl.arms) = 3
  /\ HostAccepts(define_output)

\* C3: the wire enum has the declared name and its members are the variants
\* of the groups, group after group in declaration order and in declaration
\* order within a group, each with its name and payload type.
C3_WireEnumFlattened ==
  Generated =>
    /\ define_output.wire_enum.name = DeclaredName(decl_input.ts)
    /\ Len(define_output.wire_enum.variants)
         = Offset(decl_ast.val.groups, Len(decl_ast.val.groups))
    /\ \A i \in 1..Len(decl_ast.val.groups) :
         \A j \in 1..Len(decl_ast.val.groups[i].variants) :
           /\ define_output.wire_enum.variants[Offset(decl_ast.val.groups, i - 1) + j].name
                = decl_ast.val.groups[i].variants[j].name
           /\ define_output.wire_enum.variants[Offset(decl_ast.val.groups, i - 1) + j].ty
                = decl_ast.val.groups[i].variants[j].ty

\* Business { C } then Protocol { B, A } flattened to C, B, A.
C3_Witness ==
  /\ Generated
  /\ Names(decl_ast.val.groups) = <<"Business", "Protocol">>
  /\ Names(define_output.wire_enum.variants) = <<"C", "B", "A">>

\* C4: the n-th declared group gives the n-th group enum and the n-th member
\* of the dispatch enum, and the n-th declared variant of a group gives the
\* n-th member of its group enum.
C4_DeclarationOrder ==
  Generated =>
    /\ Names(define_output.group_enums) = Names(decl_ast.val.groups)
    /\ Names(define_output.group_dispatch_enum.variants) = Names(decl_ast.val.groups)
    /\ \A n \in 1..Len(decl_ast.val.groups) :
         Names(define_output.group_enums[n].variants)
           = Names(decl_ast.val.groups[n].variants)

\* Two groups declared against the alphabet, the second with B before A.
C4_Witness ==
  /\ Generated
  /\ Names(define_output.group_enums) = <<"Protocol", "Business">>
  /\ Names(define_output.group_enums[2].variants) = <<"B", "A">>
  /\ Names(define_output.group_dispatch_enum.variants) = <<"Protocol", "Business">>

\* C5: a group written with empty braces is parsed without error into a group
\* of zero variants, and in the generated items a group of zero variants gives
\* a group enum without members, no member of the wire enum and no arm of
\* into_group (both hold exactly the variants of the other groups), and
\* exactly one member of the dispatch enum, at the group's position.
C5_EmptyGroup ==
  /\ \A k \in 2..Len(ListOf(decl_input.ts)) :
       ListOf(decl_input.ts)[k] = Brace(<<>>) =>
         ParseGroup(SubSeq(ListOf(decl_input.ts), k - 1, k))
           = Ok(ParsedGroup(ListOf(decl_input.ts)[k - 1].v, <<>>), <<>>)
  /\ Generated =>
       /\ Cardinality({k \in 1..Len(ListOf(decl_input.ts)) :
                         ListOf(decl_input.ts)[k] = Brace(<<>>)})
            = Cardinality({i \in 1..Len(decl_ast.val.groups) :
                             decl_ast.val.groups[i].variants = <<>>})
       /\ Len(define_output.group_dispatch_enum.variants) = Len(decl_ast.val.groups)
       /\ Len(define_output.wire_enum.variants)
            = Offset(decl_ast.val.groups, Len(decl_ast.val.groups))
       /\ Len(define_output.inherent_impl.arms)
            = Offset(decl_ast.val.groups, Len(decl_ast.val.groups))
       /\ \A i \in 1..Len(decl_ast.val.groups) :
            decl_ast.val.groups[i].variants = <<>> =>
              /\ define_output.group_enums[i].name = decl_ast.val.groups[i].name
              /\ define_output.group_enums[i].variants = <<>>
              /\ Offset(decl_ast.val.groups, i) = Offset(decl_ast.val.groups, i - 1)
              /\ define_output.group_dispatch_enum.variants[i].name
                   = decl_ast.val.groups[i].name
       /\ \A i \in 1..Len(decl_ast.val.groups) :
            \A j \in 1..Len(decl_ast.val.groups[i].variants) :
              define_output.inherent_impl.arms[Offset(decl_ast.val.groups, i - 1) + j]
                .expr.variant = decl_ast.val.groups[i].name

\* Protocol {} followed by Business { C }: one wire member, one arm, two
\* members of the dispatch enum, and the crate compiles.
C5_Witness ==
  /\ Generated
  /\ Len(ListOf(decl_input.ts)) >= 2
  /\ ListOf(decl_input.ts)[2] = Brace(<<>>)
  /\ Names(decl_ast.val.groups) = <<"Protocol", "Business">>
  /\ decl_ast.val.groups[1].variants = <<>>
  /\ define_output.group_enums[1].variants = <<>>
  /\ Names(define_output.wire_enum.variants) = <<"C">>
  /\ Len(define_output.inherent_impl.arms) = 1
  /\ Len(define_output.group_dispatch_enum.variants) = 2
  /\ HostAccepts(define_output)

\* C6: the dispatch enum is named by the declared wire name followed by
\* "Group", has one member per declared group, the member of group G named G
\* and wrapping the group enum G, and carries #[derive(Debug, Clone)] whatever
\* attributes the declaration carries.
C6_DispatchEnum ==
  Generated =>
    /\ define_output.group_dispatch_enum.name = DeclaredName(decl_input.ts) \o "Group"
    /\ Len(define_output.group_dispatch_enum.variants) = Len(decl_ast.val.groups)
    /\ \A i \in 1..Len(decl_ast.val.groups) :
         /\ define_output.group_dispatch_enum.variants[i].name = decl_ast.val.groups[i].name
         /\ define_output.group_dispatch_enum.variants[i].ty = decl_ast.val.groups[i].name
         /\ define_output.group_dispatch_enum.variants[i].ty
              = define_output.group_enums[i].name
    /\ \E a \in 1..Len(define_output.group_dispatch_enum.attrs) :
         define_output.group_dispatch_enum.attrs[a]
           = <<Ident("derive"), Paren(<<Ident("Debug"), Comma, Ident("Clone")>>)>>
    /\ {"Debug", "Clone"} \subseteq Derives(define_output.group_dispatch_enum.attrs)

\* A declaration without attributes and with two groups has been expanded.
C6_Witness ==
  /\ Generated
  /\ decl_ast.val.attrs = <<>>
  /\ decl_ast.val.name = "WireMsg"
  /\ define_output.group_dispatch_enum.name = "WireMsgGroup"
  /\ Names(define_output.group_dispatch_enum.variants) = <<"Business", "Protocol">>

\* C7: the generated implementation of EnumGroup is for the wire enum, its
\* associated type Group is the dispatch enum, its into_group calls the
\* inherent into_group of the wire enum, and on every wire value the trait
\* method returns what the inherent method returns.
C7_TraitDelegates ==
  /\ Generated =>
       /\ define_output.trait_impl.trait = "::enum_group_macros::EnumGroup"
       /\ define_output.trait_impl.self_ty = DeclaredName(decl_input.ts)
       /\ define_output.trait_impl.self_ty = define_output.wire_enum.name
       /\ define_output.trait_impl.Group = define_output.group_dispatch_enum.name
       /\ define_output.trait_impl.method = "into_group"
       /\ define_output.trait_impl.callee.ty = define_output.inherent_impl.self_ty
       /\ define_output.trait_impl.callee.method = define_output.inherent_impl.method
  /\ trait_grouped # None =>
       /\ trait_grouped = grouped
       /\ trait_grouped.enum = define_output.trait_impl.Group

\* The trait method has converted the wire value C(1) to the Business group.
C7_Witness ==
  /\ trait_grouped # None
  /\ msg = Value("WireMsg", "C", 1)
  /\ trait_grouped = Value("WireMsgGroup", "Business", Value("Business", "C", 1))

\* C8: the expansion of a dispatch expression the host accepts is an
\* expression, and on a wire value whose variant is declared in group G it
\* evaluates to the body of the first arm named G with the arm's binding
\* bound to the value of the group enum G; with the arms Protocol(p) => 1,
\* Business(b) => 2 over Protocol { A, B }, Business { C } a value built from
\* B gives 1 and a value built from C gives 2.
C8_MatchEvaluates ==
  match_result # None =>
    /\ match_output.kind = "expr"
    /\ \A i \in 1..Len(decl_ast.val.groups) :
         \A j \in 1..Len(decl_ast.val.groups[i].variants) :
           decl_ast.val.groups[i].variants[j].name = msg.variant =>
             /\ \E a \in 1..Len(match_ast.val.arms) :
                  match_ast.val.arms[a].group_name = decl_ast.val.groups[i].name
             /\ \A a \in 1..Len(match_ast.val.arms) :
                  (/\ match_ast.val.arms[a].group_name = decl_ast.val.groups[i].name
                   /\ \A b \in 1..(a - 1) :
                        match_ast.val.arms[b].group_name # decl_ast.val.groups[i].name)
                  => match_result
                       = EvalBody(match_ast.val.arms[a].body, match_ast.val.arms[a].binding,
                                  Value(decl_ast.val.groups[i].name, msg.variant,
                                        msg.payload))
    /\ match_ast.val.arms = <<MatchArm("Protocol", <<Ident("p")>>, <<Lit("1")>>),
                              MatchArm("Business", <<Ident("b")>>, <<Lit("2")>>)>>
         => /\ msg.variant = "B" => match_result = [kind |-> "lit", val |-> "1"]
            /\ msg.variant = "C" => match_result = [kind |-> "lit", val |-> "2"]
    /\ match_ast.val.arms[1] = MatchArm("Protocol", <<Ident("p")>>, <<Ident("p")>>)
         /\ msg.variant = "A"
         => match_result = [kind |-> "group",
                            val |-> Value("Protocol", "A", msg.payload)]

\* The arms Protocol(p) => 1, Business(b) => 2 evaluated on a value built from C.
C8_Witness ==
  /\ match_result # None
  /\ match_ast.val.arms = <<MatchArm("Protocol", <<Ident("p")>>, <<Lit("1")>>),
                            MatchArm("Business", <<Ident("b")>>, <<Lit("2")>>)>>
  /\ msg = Value("WireMsg", "C", 2)
  /\ match_result = [kind |-> "lit", val |-> "2"]

\* The positions of the commas of a list that stand alone after an item.
SingleCommas(list) ==
  {k \in 2..Len(list) :
     /\ list[k] = Comma
     /\ list[k - 1] # Comma
     /\ k = Len(list) \/ list[k + 1] # Comma}

\* An invocation with the content of its closing braces replaced.
WithList(ts, list) == [ts EXCEPT ![Len(ts)].s = list]

\* A declaration without the k-th token of the body of its g-th group.
WithoutVariantComma(ts, g, k) ==
  WithList(ts, [ListOf(ts) EXCEPT ![g + 1].s = RemoveAt(@, k)])

\* The statement of C9 as claimed: in the three lists, an accepted input and
\* the same input without one of its single commas give the same AST.
C9_AnyCommaOptional ==
  /\ decl_ast # None =>
       /\ \A k \in SingleCommas(ListOf(decl_input.ts)) :
            ParseMacroInput(WithList(decl_input.ts, RemoveAt(ListOf(decl_input.ts), k)))
              = Ok(decl_ast.val, <<>>)
       /\ \A g \in {n \in 1..(Len(ListOf(decl_input.ts)) - 1) :
                       ListOf(decl_input.ts)[n + 1].k = "brace"} :
            \A k \in SingleCommas(ListOf(decl_input.ts)[g + 1].s) :
              ParseMacroInput(WithoutVariantComma(decl_input.ts, g, k))
                = Ok(decl_ast.val, <<>>)
  /\ match_ast # None =>
       \A k \in SingleCommas(ListOf(match_input.ts)) :
         ParseMatchInput(WithList(match_input.ts, RemoveAt(ListOf(match_input.ts), k)))
           = Ok(match_ast.val, <<>>)

\* C9: in the group list and in the variant lists of an accepted declaration
\* every single comma is optional: the declaration without it is accepted
\* with the same AST and the same generated items.  In the arm list of an
\* accepted dispatch expression the same holds for the comma after the last
\* arm and for a comma between two arms unless the body before it is a bare
\* return; a comma between a bare return and the next arm is required: the
\* expression without it is rejected and expands to a compile error.
C9_CommaOptional ==
  /\ decl_ast # None =>
       /\ \A k \in SingleCommas(ListOf(decl_input.ts)) :
            \A r \in {ParseMacroInput(WithList(decl_input.ts,
                                                RemoveAt(ListOf(decl_input.ts), k)))} :
              /\ r = Ok(decl_ast.val, <<>>)
              /\ generate_enum_group(r.val) = define_output
       /\ \A g \in {n \in 1..(Len(ListOf(decl_input.ts)) - 1) :
                       ListOf(decl_input.ts)[n + 1].k = "brace"} :
            \A k \in SingleCommas(ListOf(decl_input.ts)[g + 1].s) :
              \A r \in {ParseMacroInput(WithoutVariantComma(decl_input.ts, g, k))} :
                /\ r = Ok(decl_ast.val, <<>>)
                /\ generate_enum_group(r.val) = define_output
  /\ match_ast # None =>
       \A k \in SingleCommas(ListOf(match_input.ts)) :
         IF k = Len(ListOf(match_input.ts))
            \/ ListOf(match_input.ts)[k - 1] # Ident("return")
         THEN /\ ParseMatchInput(WithList(match_input.ts,
                                          RemoveAt(ListOf(match_input.ts), k)))
                   = Ok(match_ast.val, <<>>)
              /\ parse_match_enum_group(WithList(match_input.ts,
                                                 RemoveAt(ListOf(match_input.ts), k)))
                   = match_output
         ELSE /\ ~ParseMatchInput(WithList(match_input.ts,
                                           RemoveAt(ListOf(match_input.ts), k))).ok
              /\ parse_match_enum_group(WithList(match_input.ts,
                                                 RemoveAt(ListOf(match_input.ts), k))).kind
                   = "compile_error"

\* The accepted arms Business(b) => return, Protocol(p) => 1: the comma after
\* the bare return cannot be left out.
C9_Witness ==
  /\ match_ast # None
  /\ match_ast.val.arms = <<MatchArm("Business", <<Ident("b")>>, <<Ident("return")>>),
                            MatchArm("Protocol", <<Ident("p")>>, <<Lit("1")>>)>>
  /\ SingleCommas(ListOf(match_input.ts)) = {5}
  /\ ~ParseMatchInput(WithList(match_input.ts, RemoveAt(ListOf(match_input.ts), 5))).ok

\* A list without the commas at its end.
RECURSIVE StripTrail(_)
StripTrail(list) ==
  IF list # <<>> /\ list[Len(list)] = Comma
  THEN StripTrail(SubSeq(list, 1, Len(list) - 1))
  ELSE list

\* The number of commas after the last item of a list.
TrailCount(list) == Len(list) - Len(StripTrail(list))

\* A declaration without the commas after the last group and after the last
\* variant of every group.
StrippedDecl(ts) ==
  WithList(ts, StripTrail([n \in 1..Len(ListOf(ts)) |->
                            IF ListOf(ts)[n].k = "brace"
                            THEN [ListOf(ts)[n] EXCEPT !.s = StripTrail(@)]
                            ELSE ListOf(ts)[n]]))

\* The largest number of commas after the last item of the group list and of
\* the variant lists of a declaration.
LongestTrail(ts) ==
  CHOOSE m \in 0..Len(ts) + MaxCommas + 1 :
    /\ \A n \in 1..Len(ListOf(ts)) :
         /\ ListOf(ts)[n].k = "brace" => TrailCount(ListOf(ts)[n].s) <= m
         /\ TrailCount(ListOf(ts)) <= m
    /\ \/ TrailCount(ListOf(ts)) = m
       \/ \E n \in 1..Len(ListOf(ts)) :
            ListOf(ts)[n].k = "brace" /\ TrailCount(ListOf(ts)[n].s) = m

\* The statement of C10 as claimed: whatever the number of commas after the
\* last group and after the last variant of a group, the declaration is
\* accepted with the AST of the declaration written without them.
C10_AnyNumberOfTrailingCommas ==
  define_output # None =>
    \A r \in {ParseMacroInput(StrippedDecl(decl_input.ts))} :
      r.ok => decl_ast = Ast(r.val)

\* C10: with at most one comma after the last group and after the last
\* variant of every group, the declaration is accepted with the AST of the
\* declaration written without them; with two or more commas after the last
\* item of one of these lists it is rejected and expands to a compile error.
C10_TrailingCommas ==
  define_output # None =>
    \A r \in {ParseMacroInput(StrippedDecl(decl_input.ts))} :
      r.ok =>
        IF LongestTrail(decl_input.ts) <= 1
        THEN /\ decl_ast = Ast(r.val)
             /\ define_output = generate_enum_group(r.val)
        ELSE /\ decl_ast = None
             /\ define_output = CompileError("expected identifier")

\* Protocol { B, A,, }: two commas after the last variant, and a compile error.
C10_Witness ==
  /\ define_output # None
  /\ Len(ListOf(decl_input.ts)) >= 2
  /\ TrailCount(ListOf(decl_input.ts)[2].s) = 2
  /\ StripTrail(ListOf(decl_input.ts)[2].s) # <<>>
  /\ ParseMacroInput(StrippedDecl(decl_input.ts)).ok
  /\ define_output.kind = "compile_error"

\* The position of the enum keyword of a declaration.
EnumAt(ts) == CHOOSE k \in 1..Len(ts) : ts[k] = Ident("enum")

\* The attributes written before the enum keyword, in the order written:
\* the content of each #[..].
DeclaredAttrs(ts) ==
  [a \in 1..Len(SelectSeq(SubSeq(ts, 1, EnumAt(ts) - 1), LAMBDA t : t.k = "bracket")) |->
     SelectSeq(SubSeq(ts, 1, EnumAt(ts) - 1), LAMBDA t : t.k = "bracket")[a].s]

\* C11: the attributes written on the declaration are, all of them, unchanged
\* and in the order written, the attributes of every group enum (one per
\* declared group, a group without variants included) and of the wire enum.
C11_DeclarationAttrs ==
  Generated =>
    /\ Len(define_output.group_enums) = Len(decl_ast.val.groups)
    /\ \A i \in 1..Len(define_output.group_enums) :
         define_output.group_enums[i].attrs = DeclaredAttrs(decl_input.ts)
    /\ define_output.wire_enum.attrs = DeclaredAttrs(decl_input.ts)

\* #[derive(Debug, Clone, Serialize)] #[serde(tag)] on a declaration whose
\* first group has no variants.
C11_Witness ==
  /\ Generated
  /\ DeclaredAttrs(decl_input.ts)
       = <<<<Ident("derive"), Paren(<<Ident("Debug"), Comma, Ident("Clone"), Comma,
                                      Ident("Serialize")>>)>>,
           <<Ident("serde"), Paren(<<Ident("tag")>>)>>>>
  /\ Len(define_output.group_enums) = 2
  /\ define_output.group_enums[1].variants = <<>>
  /\ define_output.group_enums[1].attrs = DeclaredAttrs(decl_input.ts)
  /\ define_output.wire_enum.attrs = DeclaredAttrs(decl_input.ts)

\* The number of #[..] written inside the braces of the groups.
RECURSIVE VariantAttrCount(_)
VariantAttrCount(list) ==
  IF list = <<>> THEN 0
  ELSE Len(SelectSeq(Head(list).s, LAMBDA t : t.k = "bracket"))
       + VariantAttrCount(Tail(list))

\* The number of attributes on the members of an enum.
RECURSIVE MemberAttrCount(_)
MemberAttrCount(members) ==
  IF members = <<>> THEN 0
  ELSE Len(Head(members).attrs) + MemberAttrCount(Tail(members))

\* C12: the attributes of a variant are, unchanged and in order, the
\* attributes of its member in its group enum and of its member in the wire
\* enum, so that every attribute written on a variant occurs once in the
\* group enums and once in the wire enum; the members of the dispatch enum
\* carry no attribute, the dispatch enum carries none of them, and an arm of
\* into_group is a pattern and an expression only.
C12_VariantAttrs ==
  Generated =>
    /\ \A i \in 1..Len(decl_ast.val.groups) :
         \A j \in 1..Len(decl_ast.val.groups[i].variants) :
           /\ define_output.group_enums[i].variants[j].attrs
                = decl_ast.val.groups[i].variants[j].attrs
           /\ define_output.wire_enum.variants[Offset(decl_ast.val.groups, i - 1) + j].attrs
                = decl_ast.val.groups[i].variants[j].attrs
           /\ \A a \in 1..Len(decl_ast.val.groups[i].variants[j].attrs) :
                \A d \in 1..Len(define_output.group_dispatch_enum.attrs) :
                  define_output.group_dispatch_enum.attrs[d]
                    # decl_ast.val.groups[i].variants[j].attrs[a]
    /\ MemberAttrCount(define_output.wire_enum.variants)
         = VariantAttrCount(ListOf(decl_input.ts))
    /\ \A i \in 1..Len(define_output.group_enums) :
         MemberAttrCount(define_output.group_enums[i].variants)
           = VariantAttrCount(<<ListOf(decl_input.ts)[
               CHOOSE n \in 1..Len(ListOf(decl_input.ts)) :
                 /\ ListOf(decl_input.ts)[n].k = "brace"
                 /\ Len(SelectSeq(SubSeq(ListOf(decl_input.ts), 1, n),
                                  LAMBDA t : t.k = "brace")) = i]>>)
    /\ MemberAttrCount(define_output.group_dispatch_enum.variants) = 0
    /\ \A a \in 1..Len(define_output.inherent_impl.arms) :
         DOMAIN define_output.inherent_impl.arms[a] = {"pat", "expr"}

\* Protocol { #[serde(rename)] #[serde(alias)] B(MsgB), A(MsgA) }
C12_Witness ==
  /\ Generated
  /\ Len(define_output.group_enums) = 2
  /\ Names(define_output.group_enums[2].variants) = <<"B", "A">>
  /\ define_output.group_enums[2].variants[1].attrs
       = <<<<Ident("serde"), Paren(<<Ident("rename")>>)>>,
           <<Ident("serde"), Paren(<<Ident("alias")>>)>>>>
  /\ define_output.group_enums[2].variants[2].attrs = <<>>
  /\ Names(define_output.wire_enum.variants) = <<"C", "B", "A">>
  /\ define_output.wire_enum.variants[2].attrs
       = define_output.group_enums[2].variants[1].attrs
  /\ define_output.wire_enum.variants[1].attrs = <<>>

\* The visibility written before the enum keyword.
DeclaredVis(ts) ==
  IF EnumAt(ts) >= 2 /\ ts[EnumAt(ts) - 1] = Ident("pub") THEN "pub"
  ELSE IF EnumAt(ts) >= 3 /\ ts[EnumAt(ts) - 2] = Ident("pub")
          /\ ts[EnumAt(ts) - 1] = Paren(<<Ident("crate")>>) THEN "pub(crate)"
  ELSE ""

\* C13: the visibility written on the declaration (none, pub or pub(crate))
\* is the visibility of every group enum, of the wire enum, of the dispatch
\* enum and of the inherent method into_group.
C13_Visibility ==
  Generated =>
    /\ \A i \in 1..Len(define_output.group_enums) :
         define_output.group_enums[i].vis = DeclaredVis(decl_input.ts)
    /\ define_output.wire_enum.vis = DeclaredVis(decl_input.ts)
    /\ define_output.group_dispatch_enum.vis = DeclaredVis(decl_input.ts)
    /\ define_output.inherent_impl.vis = DeclaredVis(decl_input.ts)
    /\ define_output.inherent_impl.method = "into_group"

\* A pub(crate) declaration of two groups has been expanded.
C13_Witness ==
  /\ Generated
  /\ DeclaredVis(decl_input.ts) = "pub(crate)"
  /\ Len(define_output.group_enums) = 2
  /\ define_output.group_enums[2].vis = "pub(crate)"
  /\ define_output.inherent_impl.vis = "pub(crate)"

\* Is a token missing after which the list has an item (a name) that is not
\* followed by a group of the kind its grammar asks for.
NameWithout(list, kind) ==
  \E k \in 1..Len(list) :
    /\ IsIdent(list[k])
    /\ k = Len(list) \/ list[k + 1].k # kind

\* The output of a failed invocation: the diagnostic and nothing else.
OnlyError(output, diagnostic) ==
  /\ output.kind = "compile_error"
  /\ DOMAIN output = {"kind", "msg"}
  /\ output.msg = diagnostic

\* C14: an invocation whose parse fails returns the diagnostic only, no item
\* and no expression; and each structural mismatch of a declaration (no enum
\* keyword, no name after it, no braces at the end, a group name without
\* braces, a variant name without a parenthesized type, an empty type) or of
\* a dispatch expression (no comma after the subject, no comma after the wire
\* name, no braces at the end, an arm name without a parenthesized binding, a
\* binding without =>) makes the invocation fail with the diagnostic of that
\* mismatch.
C14_AllOrNothing ==
  /\ define_output # None =>
       /\ decl_ast = None =>
            /\ define_output.kind = "compile_error"
            /\ DOMAIN define_output = {"kind", "msg"}
       /\ decl_ast # None => define_output = generate_enum_group(decl_ast.val)
       /\ (\A k \in 1..Len(decl_input.ts) : decl_input.ts[k] # Ident("enum"))
            => OnlyError(define_output, "expected enum")
       /\ (\E k \in 1..Len(decl_input.ts) :
              /\ decl_input.ts[k] = Ident("enum")
              /\ k = Len(decl_input.ts) \/ ~IsIdent(decl_input.ts[k + 1]))
            => OnlyError(define_output, "expected identifier")
       /\ decl_input.ts[Len(decl_input.ts)].k # "brace"
            => OnlyError(define_output, "expected curly braces")
       /\ decl_input.ts[Len(decl_input.ts)].k = "brace"
            /\ NameWithout(ListOf(decl_input.ts), "brace")
            => OnlyError(define_output, "expected curly braces")
       /\ (\E g \in 1..Len(ListOf(decl_input.ts)) :
              /\ ListOf(decl_input.ts)[g].k = "brace"
              /\ NameWithout(ListOf(decl_input.ts)[g].s, "paren"))
            => OnlyError(define_output, "expected parentheses")
       /\ (\E g \in 1..Len(ListOf(decl_input.ts)) :
              \E v \in 1..Len(ListOf(decl_input.ts)[g].s) :
                ListOf(decl_input.ts)[g].s[v] = Paren(<<>>))
            => OnlyError(define_output, "expected type")
  /\ match_output # None =>
       /\ match_ast = None =>
            /\ match_output.kind = "compile_error"
            /\ DOMAIN match_output = {"kind", "msg"}
       /\ match_ast # None => match_output.kind = "expr"
       /\ match_input.ts[1] = Ident("msg") /\ ~Peek(Tail(match_input.ts), Comma)
            => OnlyError(match_output, "expected ,")
       /\ SubSeq(match_input.ts, 1, 3) = <<Ident("msg"), Comma, Ident("WireMsg")>>
            /\ ~Peek(SubSeq(match_input.ts, 4, Len(match_input.ts)), Comma)
            => OnlyError(match_output, "expected ,")
       /\ match_input.ts[Len(match_input.ts)].k # "brace"
            => OnlyError(match_output, "expected curly braces")
       /\ (\E k \in 1..Len(ListOf(match_input.ts)) :
              /\ IsIdent(ListOf(match_input.ts)[k])
              /\ k = 1 \/ ListOf(match_input.ts)[k - 1] = Comma
              /\ k = Len(ListOf(match_input.ts))
                   \/ ListOf(match_input.ts)[k + 1].k # "paren")
            => OnlyError(match_output, "expected parentheses")
       /\ (\E k \in 1..Len(ListOf(match_input.ts)) :
              /\ ListOf(match_input.ts)[k].k = "paren"
              /\ k = Len(ListOf(match_input.ts))
                   \/ ListOf(match_input.ts)[k + 1] # FatArrow)
            => match_output.kind = "compile_error"

\* The declaration whose second variant lost its parenthesized type has been
\* expanded to the diagnostic, although a group and a variant parsed before.
C14_Witness ==
  /\ define_output # None
  /\ decl_input.ts[Len(decl_input.ts)].k = "brace"
  /\ Len(ListOf(decl_input.ts)) >= 2
  /\ Len(ListOf(decl_input.ts)[2].s) = 5
  /\ ListOf(decl_input.ts)[2].s[1] = Ident("A")
  /\ ListOf(decl_input.ts)[2].s[4] = Ident("B")
  /\ ListOf(decl_input.ts)[2].s[5] = Comma
  /\ define_output = [kind |-> "compile_error", msg |-> "expected parentheses"]
  /\ decl_ast = None

\* Arm lists that do not fit the groups Protocol and Business: a group
\* without an arm, an arm for a group that is not declared, a group named twice.
UncheckedArmLists ==
  {<<MatchArm("Protocol", <<Ident("p")>>, <<Lit("1")>>)>>,
   <<MatchArm("Protocol", <<Ident("p")>>, <<Lit("1")>>),
     MatchArm("Other", <<Ident("o")>>, <<Lit("3")>>)>>,
   <<MatchArm("Other", <<Ident("o")>>, <<Lit("3")>>),
     MatchArm("Other", <<Ident("o")>>, <<Lit("3")>>)>>,
   <<MatchArm("Business", <<Ident("b")>>, <<Lit("2")>>),
     MatchArm("Business", <<Ident("b")>>, <<Lit("2")>>)>>}

\* A dispatch expression with every arm renamed to Protocol.
RenamedArms(ts) ==
  WithList(ts, [k \in 1..Len(ListOf(ts)) |->
                 IF ListOf(ts)[k] \in {Ident("Business"), Ident("Other")}
                 THEN Ident("Protocol") ELSE ListOf(ts)[k]])

\* C15: match_enum_group never compares the arms with the declared groups.
\* Whether a dispatch expression parses does not depend on the names of its
\* arms; every parsed arm is emitted, under its own name and in its place;
\* the arm lists that miss a group, name an undeclared group or name a group
\* twice expand to a match expression and not to a diagnostic, and it is the
\* host compiler that rejects the expansion.
C15_NoArmSetCheck ==
  match_output # None =>
    /\ ParseMatchInput(RenamedArms(match_input.ts)).ok = (match_ast # None)
    /\ match_ast # None =>
         /\ match_output.kind = "expr"
         /\ Len(match_output.arms) = Len(match_ast.val.arms)
         /\ \A i \in 1..Len(match_ast.val.arms) :
              match_output.arms[i].pat.variant = match_ast.val.arms[i].group_name
    /\ \A arms \in UncheckedArmLists :
         match_input = Tokens(RenderMatch(<<Ident("msg")>>, "WireMsg", arms, 1, 1)) =>
           /\ match_output.kind = "expr"
           /\ Len(match_output.arms) = Len(arms)
           /\ \A i \in 1..Len(arms) :
                match_output.arms[i].pat.variant = arms[i].group_name
           /\ define_output # None => ~MatchAccepts(define_output, match_output)

\* Other(o) => 3, Other(o) => 3 over Protocol and Business: expanded, both
\* arms emitted, and the expansion is what the host compiler rejects.
C15_Witness ==
  /\ match_output # None
  /\ match_output.kind = "expr"
  /\ Len(match_output.arms) = 2
  /\ match_output.arms[1].pat.variant = "Other"
  /\ match_output.arms[2].pat.variant = "Other"
  /\ Generated
  /\ Names(define_output.group_dispatch_enum.variants) = <<"Protocol", "Business">>
  /\ ~CrateCompiles

\* The number of tokens of one kind in a list.
CountKind(list, kind) == Len(SelectSeq(list, LAMBDA t : t.k = kind))

\* The number of parenthesized types written inside the braces of the groups.
RECURSIVE PayloadCount(_)
PayloadCount(list) ==
  IF list = <<>> THEN 0
  ELSE CountKind(Head(list).s, "paren") + PayloadCount(Tail(list))

\* C16: names are neither sorted, nor merged, nor compared.  An accepted
\* declaration gives one group enum and one dispatch member per pair of
\* braces written in its body and one wire member and one arm per payload
\* written in the groups; and the declarations in which a variant is repeated
\* in a group or across groups, a group is repeated, or a group is named like
\* the wire enum or like the dispatch enum are expanded without a diagnostic,
\* name by name as written, into items that the host compiler rejects.
C16_NoCollisionDetection ==
  define_output # None =>
    /\ Generated =>
         /\ Len(define_output.group_enums) = CountKind(ListOf(decl_input.ts), "brace")
         /\ Len(define_output.group_dispatch_enum.variants)
              = CountKind(ListOf(decl_input.ts), "brace")
         /\ Len(define_output.wire_enum.variants) = PayloadCount(ListOf(decl_input.ts))
         /\ Len(define_output.inherent_impl.arms) = PayloadCount(ListOf(decl_input.ts))
    /\ \A sh \in CollisionShapes :
         decl_input = Tokens(RenderDecl(SourceDecl(DeriveStyle, sh), DefaultSeps)) =>
           /\ Generated
           /\ Names(define_output.group_enums) = [i \in 1..Len(sh) |-> sh[i].name]
           /\ Names(define_output.group_dispatch_enum.variants)
                = [i \in 1..Len(sh) |-> sh[i].name]
           /\ \A i \in 1..Len(sh) :
                Names(define_output.group_enums[i].variants) = sh[i].variants
           /\ Names(define_output.wire_enum.variants)
                = Flatten([i \in 1..Len(sh) |-> sh[i].variants])
           /\ [a \in 1..Len(define_output.inherent_impl.arms) |->
                 define_output.inherent_impl.arms[a].pat.variant]
                = Flatten([i \in 1..Len(sh) |-> sh[i].variants])
           /\ ~HostAccepts(define_output)

\* Protocol { C(MsgC), C(MsgC) } expanded with both members and both arms.
C16_Witness ==
  /\ Generated
  /\ Names(define_output.group_enums) = <<"Protocol">>
  /\ Names(define_output.group_enums[1].variants) = <<"C", "C">>
  /\ Names(define_output.wire_enum.variants) = <<"C", "C">>
  /\ Len(define_output.inherent_impl.arms) = 2
  /\ ~HostAccepts(define_output)

\* C17: what an invocation returned is what its own token stream expands to,
\* whichever of the two invocations of the crate ran first and whatever has
\* run since: the output of define_enum_group is a function of the tokens of
\* the declaration alone, the output of match_enum_group a function of the
\* tokens of the dispatch expression alone.
C17_Stateless ==
  /\ define_output # None =>
       \A r \in {ParseMacroInput(decl_input.ts)} :
         define_output = IF r.ok THEN generate_enum_group(r.val) ELSE CompileError(r.err)
  /\ match_output # None =>
       \A r \in {ParseMatchInput(match_input.ts)} :
         match_output = IF r.ok THEN GenerateMatch(r.val.val, r.val.wire, r.val.arms)
                                ELSE CompileError(r.err)
  /\ define_output # None /\ match_output # None =>
       \A r \in {ParseMatchInput(RenamedArms(match_input.ts))} :
         r.ok = (match_output.kind = "expr")

\* A dispatch expression with an arm for an undeclared group, expanded after
\* the declaration of its wire enum was.
C17_Witness ==
  /\ define_output # None
  /\ match_output # None
  /\ define_output.kind = "items"
  /\ match_output.kind = "expr"
  /\ Len(match_output.arms) = 2
  /\ match_output.arms[2].pat.variant = "Other"

\* C18: the expansion of an accepted dispatch expression e, W, { a_1 .. a_n }
\* is an alias __EnumGroup__ of <W as EnumGroup>::Group, one call of
\* <W as EnumGroup>::into_group whose argument is e, the only place where e
\* occurs, and n arms, one per => written, the i-th being
\* __EnumGroup__::name(binding) => body with the name, the binding and the
\* body of a_i as parsed; no wildcard arm is added.
C18_MatchExpansion ==
  match_ast # None =>
    /\ DOMAIN match_output = {"kind", "alias", "scrutinee", "arms"}
    /\ match_output.kind = "expr"
    /\ match_output.alias
         = [name |-> "__EnumGroup__",
            ty |-> [self_ty |-> match_input.ts[Len(match_input.ts) - 2].v,
                    trait |-> "::enum_group_macros::EnumGroup", assoc |-> "Group"]]
    /\ match_output.scrutinee
         = [callee |-> [self_ty |-> match_input.ts[Len(match_input.ts) - 2].v,
                        trait |-> "::enum_group_macros::EnumGroup",
                        method |-> "into_group"],
            arg |-> SubSeq(match_input.ts, 1, Len(match_input.ts) - 4)]
    /\ Len(match_output.arms) = Len(match_ast.val.arms)
    /\ Len(match_output.arms)
         = Len(SelectSeq(ListOf(match_input.ts), LAMBDA t : t = FatArrow))
    /\ \A i \in 1..Len(match_ast.val.arms) :
         /\ match_output.arms[i]
              = [pat |-> [enum |-> "__EnumGroup__",
                          variant |-> match_ast.val.arms[i].group_name,
                          bind |-> match_ast.val.arms[i].binding],
                 body |-> match_ast.val.arms[i].body]
         /\ match_output.arms[i].pat.variant # "_"

\* next(), WireMsg, { Protocol(p) => p, Business(_) => { 2 }, } expanded.
C18_Witness ==
  /\ match_ast # None
  /\ match_output.scrutinee.arg = <<Ident("next"), Paren(<<>>)>>
  /\ Len(match_output.arms) = 2
  /\ match_output.arms[1]
       = [pat |-> [enum |-> "__EnumGroup__", variant |-> "Protocol",
                   bind |-> <<Ident("p")>>],
          body |-> <<Ident("p")>>]
  /\ match_output.arms[2]
       = [pat |-> [enum |-> "__EnumGroup__", variant |-> "Business",
                   bind |-> <<Ident("_")>>],
          body |-> <<Brace(<<Lit("2")>>)>>]

\* C19: a declaration that ends with enum W {} is accepted, and its expansion
\* has no group enum, a wire enum W without members, a dispatch enum WGroup
\* without members, an inherent into_group without arms and the
\* implementation of EnumGroup for W.
C19_ZeroGroups ==
  (/\ define_output # None
   /\ Len(decl_input.ts) >= 3
   /\ decl_input.ts[Len(decl_input.ts) - 2] = Ident("enum")
   /\ IsIdent(decl_input.ts[Len(decl_input.ts) - 1])
   /\ decl_input.ts[Len(decl_input.ts)] = Brace(<<>>))
  => /\ Generated
     /\ decl_ast.val.groups = <<>>
     /\ define_output.group_enums = <<>>
     /\ define_output.wire_enum.name = decl_input.ts[Len(decl_input.ts) - 1].v
     /\ define_output.wire_enum.variants = <<>>
     /\ define_output.group_dispatch_enum.name
          = decl_input.ts[Len(decl_input.ts) - 1].v \o "Group"
     /\ define_output.group_dispatch_enum.variants = <<>>
     /\ define_output.inherent_impl.self_ty = decl_input.ts[Len(decl_input.ts) - 1].v
     /\ define_output.inherent_impl.arms = <<>>
     /\ define_output.trait_impl.trait = "::enum_group_macros::EnumGroup"
     /\ define_output.trait_impl.self_ty = decl_input.ts[Len(decl_input.ts) - 1].v
     /\ define_output.trait_impl.Group = define_output.group_dispatch_enum.name

\* pub enum WireMsg {} has been expanded.
C19_Witness ==
  /\ Generated
  /\ decl_input.ts[Len(decl_input.ts)] = Brace(<<>>)
  /\ decl_ast.val.vis = "pub"
  /\ define_output.group_enums = <<>>
  /\ define_output.wire_enum.variants = <<>>
  /\ define_output.group_dispatch_enum.name = "WireMsgGroup"
  /\ define_output.trait_impl.self_ty = "WireMsg"

\* C20: the attributes of the dispatch enum are #[derive(Debug, Clone)] and
\* nothing else, whatever the declaration carries: a trait the declaration
\* derives besides Debug and Clone is derived by every group enum and by the
\* wire enum and not by the dispatch enum, and a serde attribute of the
\* declaration is not on the dispatch enum.
C20_DispatchAttrsFixed ==
  Generated =>
    /\ define_output.group_dispatch_enum.attrs
         = <<<<Ident("derive"), Paren(<<Ident("Debug"), Comma, Ident("Clone")>>)>>>>
    /\ \A t \in Derives(DeclaredAttrs(decl_input.ts)) \ {"Debug", "Clone"} :
         /\ \A i \in 1..Len(define_output.group_enums) :
              t \in Derives(define_output.group_enums[i].attrs)
         /\ t \in Derives(define_output.wire_enum.attrs)
         /\ t \notin Derives(define_output.group_dispatch_enum.attrs)
    /\ \A a \in 1..Len(DeclaredAttrs(decl_input.ts)) :
         DeclaredAttrs(decl_input.ts)[a][1] = Ident("serde") =>
           /\ define_output.wire_enum.attrs[a] = DeclaredAttrs(decl_input.ts)[a]
           /\ \A d \in 1..Len(define_output.group_dispatch_enum.attrs) :
                define_output.group_dispatch_enum.attrs[d][1] # Ident("serde")

\* #[derive(Debug, Clone, Serialize)] #[serde(tag)] on two groups: Serialize
\* on the group enums and on the wire enum, not on the dispatch enum.
C20_Witness ==
  /\ Generated
  /\ Len(define_output.group_enums) = 2
  /\ "Serialize" \in Derives(define_output.group_enums[1].attrs)
  /\ "Serialize" \in Derives(define_output.group_enums[2].attrs)
  /\ "Serialize" \in Derives(define_output.wire_enum.attrs)
  /\ Len(define_output.wire_enum.attrs) = 2
  /\ Derives(define_output.group_dispatch_enum.attrs) = {"Debug", "Clone"}
  /\ Len(define_output.group_dispatch_enum.attrs) = 1

=============================================================================
